---- MODULE Spec2Model ----
(***************************************************************************)
(* The multi-agent question router of orchestration/orchestration.py and   *)
(* the SQL agent of agents/sql_agent.py.                                   *)
(*                                                                         *)
(* Python strings that the code inspects or assembles are sequences of     *)
(* tokens (a token is a TLA+ string): "" is << >>, concatenation is \o,    *)
(* str(x) of a number is ToString(x).  A Python dict is a                 *)
(* function whose DOMAIN is its set of keys, so `k in d` is                *)
(* k \in DOMAIN d.                                                         *)
(***************************************************************************)
EXTENDS Integers, Sequences, FiniteSets, TLC

VARIABLES
    pc,           \* the node the walk is at: start, classify, rag, sql, summarize, end
    state,        \* the AgentState dict the nodes read and write (a node that
                  \* raises leaves in it what it had assigned before raising)
    visited,      \* the nodes whose function has been entered, in order
    raised,       \* the exception that left ainvoke, "none" while there is none
    failed,       \* the collaborator whose call failed, "none" while none has
    final_state,  \* what ainvoke returned to the caller (<< >> until it returns)
    call_arg,     \* the dict the caller passed to ainvoke
    outputs,      \* the list summarize_node handed to run_summary_agent
    db,           \* number of rows of each table of student_data.db
    conn,         \* the sqlite3 connection of run_sql_agent: none, open, closed
    attempts,     \* output-validation retries the SQL agent run has consumed
    result,       \* the dict run_sql_agent returned to sql_node (<< >> before)
    log,          \* what validate_output executed and fetched in its last run
    sessions      \* the chat sessions of the app, each handling one question:
                  \* its walk of the graph and the stream of its summary

vars == <<pc, state, visited, raised, failed, final_state, call_arg, outputs,
          db, conn, attempts, result, log, sessions>>

-----------------------------------------------------------------------------
(* Bounds of the model *)

MaxRawLen == 3      \* tokens in a raw classifier response
MaxStmts == 2       \* statements in a query generated by the model
MaxTableRows == 6   \* rows in each table of the database
MaxStubRows == 6    \* rows in a result handed to sql_node by a stubbed collaborator
MaxFragments == 3   \* fragments the summary stream delivers

(* Program constants *)

RowCap == 5         \* rows[:5]
MaxRetries == 1     \* Agent(...) is built without retries=, so one retry

-----------------------------------------------------------------------------
(* Strings *)

Whitespace == {" ", "\n"}

LabelTokens == {" ", "\n", "sql", "SQL", "rag", "Hybrid", "maybe"}

\* str.lower() on one token
LowerToken(t) ==
    CASE t = "SQL" -> "sql"
      [] t = "Hybrid" -> "hybrid"
      [] OTHER -> t

Lower(s) == [i \in 1..Len(s) |-> LowerToken(s[i])]

RECURSIVE LStrip(_)
LStrip(s) ==
    IF s # << >> /\ Head(s) \in Whitespace THEN LStrip(Tail(s)) ELSE s

RECURSIVE RStrip(_)
RStrip(s) ==
    IF s # << >> /\ s[Len(s)] \in Whitespace
    THEN RStrip(SubSeq(s, 1, Len(s) - 1))
    ELSE s

\* str.strip()
Strip(s) == RStrip(LStrip(s))

\* sep.join(parts): parts is a sequence of strings
RECURSIVE Join(_, _)
Join(parts, sep) ==
    IF parts = << >> THEN << >>
    ELSE IF Len(parts) = 1 THEN parts[1]
    ELSE parts[1] \o <<sep>> \o Join(Tail(parts), sep)

RECURSIVE SeqsUpTo(_, _)
SeqsUpTo(S, n) ==
    IF n = 0 THEN {<< >>}
    ELSE LET shorter == SeqsUpTo(S, n - 1)
         IN  shorter \cup {Append(s, x) : s \in {t \in shorter : Len(t) = n - 1}, x \in S}

\* dict.get(k) used as a condition: the key is there and its value is not empty
Truthy(d, k) == k \in DOMAIN d /\ d[k] # << >>

\* d[k] = v on a dict
Put(d, k, v) == [x \in DOMAIN d \cup {k} |-> IF x = k THEN v ELSE d[x]]

-----------------------------------------------------------------------------
(* The graph *)

sql == <<"sql">>
rag == <<"rag">>
hybrid == <<"hybrid">>

\* a path map that sends hybrid to the sql node first
ClassifyPathMap_HybridToSql ==
    [i \in {sql, rag, hybrid} |-> IF i = rag THEN "rag" ELSE "sql"]

\* a path map with an entry for a label outside the vocabulary
ClassifyPathMap_Default ==
    [i \in {sql, rag, hybrid, <<"maybe">>} |-> IF i = sql THEN "sql" ELSE "rag"]

\* builder.add_conditional_edges("classify", decide_next_step, {...})
ClassifyPathMap == [i \in {sql, rag, hybrid} |-> IF i = sql THEN "sql" ELSE "rag"]

\* decide_next_step
decide_next_step(s) == s["intent"]

\* an edge out of rag that goes to sql whatever the intent
AfterRag_AlwaysSql(s) == "sql"

\* lambda s: "sql" if s["intent"] == "hybrid" else "summarize"
AfterRag(s) == IF s["intent"] = hybrid THEN "sql" ELSE "summarize"

-----------------------------------------------------------------------------
(* The SQL agent: agents/sql_agent.py *)

BasicTable == "student_info_basic"
DetailedTable == "student_info_detailed"
Tables == {BasicTable, DetailedTable}

\* DB_SCHEMA, abridged to one column the tables share and one only the
\* detailed table has; names as get_table_columns lower-cases them
TableColumns ==
    [t \in Tables |-> IF t = BasicTable THEN {"mathscore"}
                                         ELSE {"mathscore", "nrsiblings"}]

\* A query string is the sequence of the statements its ';' separate.
\* EmptyStmt is a piece holding white space only.  A statement names one
\* table and one column; "pet" is a column of neither table.
EmptyStmt == [verb |-> "", table |-> "", col |-> ""]

Statements ==
    [verb : {"SELECT"}, table : Tables, col : {"mathscore", "nrsiblings", "pet"}]
    \cup [verb : {"DELETE"}, table : {BasicTable}, col : {"mathscore"}]
    \cup {EmptyStmt}

\* Success.sql_query is Annotated[str, MinLen(1)]
Queries == SeqsUpTo(Statements, MaxStmts) \ {<< >>}

Explanations == {<< >>, <<"expl">>}

ErrorMessages == {<<"cannot answer">>, << >>}

\* What the language model can answer: Response = Union[Success, InvalidRequest]
ModelOutputs ==
    [type : {"Success"}, sql_query : Queries, explanation : Explanations, rows : {<< >>}]
    \cup [type : {"InvalidRequest"}, error_message : ErrorMessages]

Databases == [Tables -> 0..MaxTableRows]

\* get_table_columns
get_table_columns(table) == TableColumns[table]

\* str.replace("student_info_basic", "student_info_detailed") on a query
ReplaceBasic(q) ==
    [i \in 1..Len(q) |->
        IF q[i].table = BasicTable THEN [q[i] EXCEPT !.table = DetailedTable] ELSE q[i]]

\* "student_info_basic" in query
MentionsBasic(q) == \E i \in 1..Len(q) : q[i].table = BasicTable

\* the text of one statement, and of a query: its statements joined by ";"
StmtText(stmt) == stmt.verb \o " " \o stmt.col \o " " \o stmt.table

RECURSIVE QueryText(_)
QueryText(q) ==
    IF q = << >> THEN ""
    ELSE StmtText(Head(q)) \o (IF Tail(q) = << >> THEN "" ELSE ";" \o QueryText(Tail(q)))

\* dict(zip(cols, row)) for the k-th row a statement fetches
Row(stmt, k) == [tbl |-> stmt.table, col |-> stmt.col, id |-> k]

\* str(row)
RowText(row) == row.tbl \o "." \o row.col \o "#" \o ToString(row.id)

\* conn.execute(query); cursor.fetchall(); cursor.description
\*   rows:  the statement returned a result set
\*   sqlite3.Error: the statement names a column its table does not have
\*   TypeError: the statement has no result set, so cursor.description is
\*              None and iterating it raises
Execute(d, stmt) ==
    IF stmt.verb = "SELECT"
    THEN IF stmt.col \in TableColumns[stmt.table]
         THEN [kind |-> "rows", rows |-> [k \in 1..d[stmt.table] |-> Row(stmt, k)]]
         ELSE [kind |-> "sqlite3.Error", rows |-> << >>]
    ELSE [kind |-> "TypeError", rows |-> << >>]

\* the for loop of validate_output over output.sql_query.split(";")
RECURSIVE ExecLoop(_, _, _)
ExecLoop(d, stmts, acc) ==
    IF stmts = << >> THEN acc
    ELSE LET query == Head(stmts)
         IN  IF query = EmptyStmt
             THEN ExecLoop(d, Tail(stmts), acc)
             ELSE LET got == Execute(d, query)
                      ran == [acc EXCEPT !.executed = Append(@, query)]
                  IN  CASE got.kind = "rows" ->
                             ExecLoop(d, Tail(stmts),
                                      [ran EXCEPT !.rows = @ \o got.rows])
                        [] got.kind = "sqlite3.Error" ->
                             ExecLoop(d, Tail(stmts),
                                      [ran EXCEPT !.errors =
                                           Append(@, "Error for query " \o StmtText(query))])
                        [] OTHER -> [ran EXCEPT !.exception = got.kind]

\* no truncation
Truncate_NoCap(rows) == rows

\* rows[-5:]
Truncate_Last(rows) ==
    SubSeq(rows, IF Len(rows) < RowCap THEN 1 ELSE Len(rows) - RowCap + 1, Len(rows))

\* rows[:5]
Truncate(rows) == SubSeq(rows, 1, IF Len(rows) < RowCap THEN Len(rows) ELSE RowCap)

\* output.sql_query.strip().upper().startswith("SELECT")
StartsWithSelect(q) == q # << >> /\ q[1].verb = "SELECT"

NoLog == [executed |-> << >>, fetched |-> << >>]

\* validate_output: what it does with one model output on database d
\*   do = "return": the validated output goes back to agent.run
\*   do = "retry":  ModelRetry
\*   do = "raise":  an exception that is no ModelRetry leaves agent.run
validate_output(d, output) ==
    IF output.type = "InvalidRequest"
    THEN [do |-> "return", output |-> output, exception |-> "none", log |-> NoLog]
    ELSE IF ~StartsWithSelect(output.sql_query)
    THEN [do |-> "retry", output |-> output, exception |-> "ModelRetry", log |-> NoLog]
    ELSE
    LET used_query == output.sql_query
        basic_cols == get_table_columns(BasicTable)
        detailed_cols == get_table_columns(DetailedTable)
        all_columns == basic_cols \cup detailed_cols
        used_columns == {c \in all_columns : \E i \in 1..Len(used_query) : used_query[i].col = c}
        fix == MentionsBasic(used_query) /\ ~(used_columns \subseteq basic_cols)
        explanation1 == IF fix
                        THEN output.explanation \o <<"\n\nNote: switched to student_info_detailed.">>
                        ELSE output.explanation
        sql_query1 == IF fix THEN ReplaceBasic(output.sql_query) ELSE output.sql_query
        sql_query2 == IF MentionsBasic(sql_query1)
                      THEN sql_query1 \o ReplaceBasic(sql_query1)
                      ELSE sql_query1
        ran == ExecLoop(d, sql_query2,
                        [rows |-> << >>, errors |-> << >>, executed |-> << >>,
                         exception |-> "none"])
        explanation2 == IF ran.errors # << >>
                        THEN explanation1 \o <<"\n\nSome queries failed:\n">>
                                          \o Join([i \in 1..Len(ran.errors) |-> <<ran.errors[i]>>], "\n")
                        ELSE explanation1
        ranlog == [executed |-> ran.executed, fetched |-> ran.rows]
    IN  IF ran.exception # "none"
        THEN [do |-> "raise", output |-> output, exception |-> ran.exception, log |-> ranlog]
        ELSE [do |-> "return",
              output |-> [type |-> "Success", sql_query |-> sql_query2,
                          explanation |-> explanation2, rows |-> Truncate(ran.rows)],
              exception |-> "none", log |-> ranlog]

\* the dict an earlier run_sql_agent built: rows only when there are some
SQLAgentOutput_Legacy(output) ==
    IF output.type = "Success" /\ output.rows # << >>
    THEN [k \in {"sql_query", "explanation", "rows"} |-> output[k]]
    ELSE IF output.type = "Success"
    THEN [k \in {"explanation"} |-> output.explanation]
    ELSE [k \in {"error"} |-> output.error_message]

\* the dict run_sql_agent builds from result.output
SQLAgentOutput(output) ==
    IF output.type = "Success"
    THEN [k \in {"sql_query", "explanation", "rows"} |-> output[k]]
    ELSE IF output.type = "InvalidRequest"
    THEN [k \in {"error"} |-> output.error_message]
    ELSE [k \in {"error"} |-> <<"Unknown error occurred.">>]

-----------------------------------------------------------------------------
(* sql_node's display string *)

\* "\n".join(str(r) for r in rows)
RenderRows(rows) == Join([i \in 1..Len(rows) |-> <<RowText(rows[i])>>], "\n")

AnswerHeader == "**Answer:**\n"

\* a display that shows an error as its bare message
sql_node_display_BareError(res) ==
    IF "error" \in DOMAIN res
    THEN res["error"]
    ELSE LET p1 == IF Truthy(res, "sql_query")
                   THEN << <<"**Query:** ", QueryText(res["sql_query"])>> >>
                   ELSE << >>
             p2 == IF Truthy(res, "explanation")
                   THEN << <<"**Explanation:**\n">> \o res["explanation"] >>
                   ELSE << >>
             p3 == IF Truthy(res, "rows")
                   THEN << <<AnswerHeader>> \o RenderRows(res["rows"]) >>
                   ELSE << <<AnswerHeader, "_No rows returned._">> >>
         IN  Join(p1 \o p2 \o p3, "\n\n")

\* a display that adds the explanation block even for an empty explanation
sql_node_display_AlwaysExplains(res) ==
    IF "error" \in DOMAIN res
    THEN <<"Error: ">> \o res["error"]
    ELSE LET p1 == IF Truthy(res, "sql_query")
                   THEN << <<"**Query:** ", QueryText(res["sql_query"])>> >>
                   ELSE << >>
             p2 == << <<"**Explanation:**\n">> \o res["explanation"] >>
             p3 == IF Truthy(res, "rows")
                   THEN << <<AnswerHeader>> \o RenderRows(res["rows"]) >>
                   ELSE << <<AnswerHeader, "_No rows returned._">> >>
         IN  Join(p1 \o p2 \o p3, "\n\n")

sql_node_display(res) ==
    IF "error" \in DOMAIN res
    THEN <<"Error: ">> \o res["error"]
    ELSE LET p1 == IF Truthy(res, "sql_query")
                   THEN << <<"**Query:** ", QueryText(res["sql_query"])>> >>
                   ELSE << >>
             p2 == IF Truthy(res, "explanation")
                   THEN << <<"**Explanation:**\n">> \o res["explanation"] >>
                   ELSE << >>
             p3 == IF Truthy(res, "rows")
                   THEN << <<AnswerHeader>> \o RenderRows(res["rows"]) >>
                   ELSE << <<AnswerHeader, "_No rows returned._">> >>
         IN  Join(p1 \o p2 \o p3, "\n\n")

-----------------------------------------------------------------------------
(* The nodes: orchestration/orchestration.py *)

Questions == {<<"question">>}

\* the dicts the callers pass to ainvoke: the app passes input and
\* rag_instance, the hybrid-flow test passes input alone
CallArgs ==
    {[k \in {"input"} |-> q] : q \in Questions}
    \cup {[k \in {"input", "rag_instance"} |-> IF k = "input" THEN q ELSE <<"LightRAG">>] :
             q \in Questions}

RawResponses == SeqsUpTo(LabelTokens, MaxRawLen)

RagAnswers == {<< >>, <<"document answer">>}

SummaryAnswers == {<<"summary">>}

\* a classify_node that trims the response but keeps its letter case
classify_node_NoLower(s, raw) == Put(s, "intent", Strip(raw))

\* classify_node, given the classifier's raw response
classify_node(s, raw) == Put(s, "intent", Lower(Strip(raw)))

\* a rag_node that writes the other backend's field
rag_node_WrongKey(s, answer) == Put(s, "sql_output", answer)

\* rag_node, given the RAG agent's answer
rag_node(s, answer) == Put(s, "rag_output", answer)

\* a sql_node that writes the other backend's field
sql_node_WrongKey(s, res) == Put(s, "rag_output", sql_node_display(res))

\* sql_node, given what run_sql_agent returned
sql_node(s, res) == Put(s, "sql_output", sql_node_display(res))

\* an outputs list with the SQL output first
SummaryInputs_SqlFirst(s) ==
    (IF Truthy(s, "sql_output") THEN <<s["sql_output"]>> ELSE << >>)
    \o (IF Truthy(s, "rag_output") THEN <<s["rag_output"]>> ELSE << >>)

\* the outputs list of summarize_node
SummaryInputs(s) ==
    (IF Truthy(s, "rag_output") THEN <<s["rag_output"]>> ELSE << >>)
    \o (IF Truthy(s, "sql_output") THEN <<s["sql_output"]>> ELSE << >>)

\* a summarize_node that returns the final answer alone
summarize_node_OnlyAnswer(s, answer) == [k \in {"final_answer"} |-> answer]

\* summarize_node, given the summarizer's answer
summarize_node(s, answer) == Put(s, "final_answer", answer)

Running == raised = "none"

\* two browser sessions of the app
Sessions == {"a", "b"}

\* a session before the user has asked anything
NewSession ==
    [pc |-> "start", state |-> << >>, call_arg |-> << >>, visited |-> << >>,
     raised |-> "none", inflight |-> {}, trace |-> << >>, final_state |-> << >>,
     messages |-> << >>, stream |-> "idle", full_response |-> << >>,
     delivered |-> << >>, shown |-> << >>]

Init ==
    /\ pc = "start"
    /\ state = << >>
    /\ visited = << >>
    /\ raised = "none"
    /\ failed = "none"
    /\ final_state = << >>
    /\ call_arg = << >>
    /\ outputs = << >>
    /\ db \in Databases
    /\ conn = "none"
    /\ attempts = 0
    /\ result = << >>
    /\ log = NoLog
    /\ sessions = [w \in Sessions |-> NewSession]

\* multi_agent_graph.ainvoke(arg): the entry point is classify
Invoke ==
    /\ pc = "start"
    /\ \E arg \in CallArgs :
          /\ call_arg' = arg
          /\ state' = arg
    /\ pc' = "classify"
    /\ UNCHANGED <<visited, raised, failed, final_state, outputs, db, sessions, conn, attempts, result, log>>

\* the node the walk is at has been entered and awaits its collaborator
Entered(node) == pc = node /\ visited # << >> /\ visited[Len(visited)] = node

\* classify_node is entered and awaits intent_router.run
ClassifyCall ==
    /\ pc = "classify"
    /\ Running
    /\ ~Entered("classify")
    /\ visited' = Append(visited, "classify")
    /\ UNCHANGED <<pc, state, raised, failed, final_state, call_arg, outputs, db, sessions, conn, attempts, result, log>>

\* a classify step that falls back to the rag path when the classifier fails
ClassifyReturn_DefaultRoute ==
    /\ Entered("classify")
    /\ Running
    /\ \/ /\ failed' = "classifier"
          /\ state' = Put(state, "intent", rag)
          /\ pc' = "rag"
          /\ UNCHANGED raised
       \/ \E raw \in RawResponses :
             LET s1 == classify_node(state, raw)
                 route == decide_next_step(s1)
             IN  /\ state' = s1
                 /\ UNCHANGED failed
                 /\ IF route \in DOMAIN ClassifyPathMap
                    THEN pc' = ClassifyPathMap[route] /\ UNCHANGED raised
                    ELSE raised' = "KeyError: route" /\ UNCHANGED pc
    /\ UNCHANGED <<visited, final_state, call_arg, outputs, db, sessions, conn, attempts, result, log>>

\* the await of classify_node resumes: the classifier raised, or it
\* answered, the intent is stored and the conditional edges out of
\* classify are evaluated
ClassifyReturn ==
    /\ Entered("classify")
    /\ Running
    /\ \/ /\ raised' = "ClassifierError"
          /\ failed' = "classifier"
          /\ UNCHANGED <<pc, state>>
       \/ \E raw \in RawResponses :
             LET s1 == classify_node(state, raw)
                 route == decide_next_step(s1)
             IN  /\ state' = s1
                 /\ UNCHANGED failed
                 /\ IF route \in DOMAIN ClassifyPathMap
                    THEN pc' = ClassifyPathMap[route] /\ UNCHANGED raised
                    ELSE raised' = "KeyError: route" /\ UNCHANGED pc
    /\ UNCHANGED <<visited, final_state, call_arg, outputs, db, sessions, conn, attempts, result, log>>

\* rag_node is entered: it reads state["rag_instance"] to build the call
\* and awaits run_rag_agent
RagCall ==
    /\ pc = "rag"
    /\ Running
    /\ ~Entered("rag")
    /\ visited' = Append(visited, "rag")
    /\ IF "rag_instance" \notin DOMAIN state
       THEN raised' = "KeyError: rag_instance"
       ELSE UNCHANGED raised
    /\ UNCHANGED <<pc, state, failed, final_state, call_arg, outputs, db, sessions, conn, attempts, result, log>>

\* the await of rag_node resumes: run_rag_agent raised, or it answered,
\* rag_output is stored and the conditional edges out of rag are evaluated
RagReturn ==
    /\ Entered("rag")
    /\ Running
    /\ \/ /\ raised' = "RagError"
          /\ failed' = "rag"
          /\ UNCHANGED <<pc, state>>
       \/ \E answer \in RagAnswers :
             /\ state' = rag_node(state, answer)
             /\ pc' = AfterRag(state')
             /\ UNCHANGED <<raised, failed>>
    /\ UNCHANGED <<visited, final_state, call_arg, outputs, db, sessions, conn, attempts, result, log>>

\* sql_node up to run_sql_agent's sqlite3.connect(DB_PATH)
SqlNodeCall ==
    /\ pc = "sql"
    /\ Running
    /\ conn = "none"
    /\ visited' = Append(visited, "sql")
    /\ conn' = "open"
    /\ attempts' = 0
    /\ UNCHANGED <<pc, state, raised, failed, final_state, call_arg, outputs, db, sessions, result, log>>

\* one model response inside agent.run, validate_output on it, and, when
\* agent.run returns, the rest of run_sql_agent and of sql_node
SqlAgentStep ==
    /\ pc = "sql"
    /\ Running
    /\ conn = "open"
    /\ \/ /\ raised' = "SqlError"
          /\ failed' = "sql"
          /\ UNCHANGED <<pc, state, conn, attempts, result, log>>
       \/ \E o \in ModelOutputs :
             LET v == validate_output(db, o)
             IN  /\ log' = v.log
                 /\ CASE v.do = "retry" ->
                           /\ IF attempts < MaxRetries
                              THEN attempts' = attempts + 1 /\ UNCHANGED <<raised, failed>>
                              ELSE /\ raised' = "UnexpectedModelBehavior"
                                   /\ failed' = "sql"
                                   /\ UNCHANGED attempts
                           /\ UNCHANGED <<pc, state, conn, result>>
                      [] v.do = "raise" ->
                           /\ raised' = v.exception
                           /\ failed' = "sql"
                           /\ UNCHANGED <<pc, state, conn, attempts, result>>
                      [] OTHER ->
                           /\ conn' = "closed"
                           /\ result' = SQLAgentOutput(v.output)
                           /\ state' = sql_node(state, result')
                           /\ pc' = "summarize"
                           /\ UNCHANGED <<raised, failed, attempts>>
    /\ UNCHANGED <<visited, final_state, call_arg, outputs, db, sessions>>

\* summarize_node is entered: it builds its outputs list and awaits
\* run_summary_agent
SummarizeCall ==
    /\ pc = "summarize"
    /\ Running
    /\ ~Entered("summarize")
    /\ visited' = Append(visited, "summarize")
    /\ outputs' = SummaryInputs(state)
    /\ UNCHANGED <<pc, state, raised, failed, final_state, call_arg, db, sessions, conn, attempts, result, log>>

\* the await of summarize_node resumes: the summarizer raised, or it
\* answered, final_answer is stored, the edge to END is taken and ainvoke
\* returns the state
SummarizeReturn ==
    /\ Entered("summarize")
    /\ Running
    /\ \/ /\ raised' = "SummarizerError"
          /\ failed' = "summarizer"
          /\ UNCHANGED <<pc, state, final_state>>
       \/ \E answer \in SummaryAnswers :
             /\ state' = summarize_node(state, answer)
             /\ pc' = "end"
             /\ final_state' = state'
             /\ UNCHANGED <<raised, failed>>
    /\ UNCHANGED <<visited, call_arg, outputs, db, sessions, conn, attempts, result, log>>

Next ==
    \/ Invoke
    \/ ClassifyCall
    \/ ClassifyReturn
    \/ RagCall
    \/ RagReturn
    \/ SqlNodeCall
    \/ SqlAgentStep
    \/ SummarizeCall
    \/ SummarizeReturn

Spec == Init /\ [][Next]_vars

-----------------------------------------------------------------------------
(* sql_node on its own, its collaborator either run_sql_agent or a stub    *)
(* that returns any dict of the SQLAgentOutput shape                       *)

StubQueries == {<< >>, <<[verb |-> "SELECT", table |-> DetailedTable, col |-> "mathscore"]>>}

StubRows ==
    {[k \in 1..n |-> Row([verb |-> "SELECT", table |-> t, col |-> "mathscore"], k)] :
        n \in 0..MaxStubRows, t \in Tables}

StubResults ==
    {SQLAgentOutput([type |-> "Success", sql_query |-> q, explanation |-> e, rows |-> r]) :
        q \in StubQueries, e \in Explanations, r \in StubRows}
    \cup {SQLAgentOutput([type |-> "InvalidRequest", error_message |-> m]) : m \in ErrorMessages}

InitStub ==
    /\ pc = "sql"
    /\ \E arg \in CallArgs :
          /\ call_arg = arg
          /\ state = classify_node(arg, <<"sql">>)
    /\ visited = <<"classify">>
    /\ raised = "none"
    /\ failed = "none"
    /\ final_state = << >>
    /\ outputs = << >>
    /\ db \in Databases
    /\ conn \in {"none", "stub"}
    /\ attempts = 0
    /\ result = << >>
    /\ log = NoLog
    /\ sessions = [w \in Sessions |-> NewSession]

\* sql_node with run_sql_agent replaced by a stub
SqlNodeStub ==
    /\ pc = "sql"
    /\ Running
    /\ conn = "stub"
    /\ visited' = Append(visited, "sql")
    /\ \E res \in StubResults :
          /\ result' = res
          /\ state' = sql_node(state, res)
    /\ pc' = "summarize"
    /\ UNCHANGED <<raised, failed, final_state, call_arg, outputs, db, sessions, conn, attempts, log>>

NextStub ==
    SqlNodeStub \/ SqlNodeCall \/ SqlAgentStep \/ SummarizeCall \/ SummarizeReturn

SpecStub == InitStub /\ [][NextStub]_vars

-----------------------------------------------------------------------------
(* Chat sessions: app/streamlit_app.py.  Every session builds its own      *)
(* state dict and calls ainvoke on the one compiled graph, then streams    *)
(* the summary.  A node awaits its collaborator, so a node is two steps:   *)
(* the call and the return.                                                *)

WalkVars == <<pc, state, visited, raised, failed, final_state, call_arg, outputs,
              db, conn, attempts, result, log>>

Nodes == {"classify", "rag", "sql", "summarize"}

\* what the collaborators of the sessions answer
SessionLabels == {<<"sql">>, <<"rag">>, <<"Hybrid">>}

SessionModelOutputs ==
    {[type |-> "Success",
      sql_query |-> <<[verb |-> "SELECT", table |-> BasicTable, col |-> "mathscore"]>>,
      explanation |-> << >>, rows |-> << >>],
     [type |-> "InvalidRequest", error_message |-> <<"cannot answer">>]}

\* the fragments stream_text(delta=True) yields, and the cursor shown after
\* the text while the stream is open
Fragments == {<< >>, <<"sum">>, <<"mary">>}

Cursor == "|"

\* a node that starts its collaborator call and does not await it
NextAfterCall_FireAndForget(node, s) ==
    CASE node = "rag" -> AfterRag(s)
      [] node = "sql" -> "summarize"
      [] node = "summarize" -> "end"
      [] OTHER -> node

\* where the walk is after a node issued its collaborator call: the node
\* awaits the call, so the walk stays in the node
NextAfterCall(node, s) == node

\* a state dict that all invocations share
StoreState_Shared(ss, w, s) == [x \in DOMAIN ss |-> [ss[x] EXCEPT !.state = s]]

\* the state dict belongs to the invocation: a node's write reaches the
\* state of its own walk
StoreState(ss, w, s) == [ss EXCEPT ![w].state = s]

\* a loop that keeps the last fragment only
Accumulate_Overwrite(full, delta) == delta

\* full_response += delta
Accumulate(full, delta) == full \o delta

InitSessions ==
    /\ pc = "start"
    /\ state = << >>
    /\ visited = << >>
    /\ raised = "none"
    /\ failed = "none"
    /\ final_state = << >>
    /\ call_arg = << >>
    /\ outputs = << >>
    /\ db = [t \in Tables |-> 1]
    /\ conn = "none"
    /\ attempts = 0
    /\ result = << >>
    /\ log = NoLog
    /\ sessions = [w \in Sessions |-> NewSession]

\* the user asks: the question is recorded and ainvoke is called
SessionInvoke(w) ==
    /\ sessions[w].pc = "start"
    /\ \E arg \in CallArgs :
          sessions' = [sessions EXCEPT
                          ![w].pc = "classify",
                          ![w].call_arg = arg,
                          ![w].state = arg,
                          ![w].messages = Append(@, [role |-> "user", content |-> arg["input"]])]
    /\ UNCHANGED WalkVars

\* the node the walk is at is entered and issues its collaborator call;
\* rag_node reads state["rag_instance"] to build the call
NodeCall(w) ==
    LET S == sessions[w]
    IN  /\ S.pc \in Nodes
        /\ S.raised = "none"
        /\ S.pc \notin S.inflight
        /\ IF S.pc = "rag" /\ "rag_instance" \notin DOMAIN S.state
           THEN sessions' = [sessions EXCEPT
                                ![w].visited = Append(@, S.pc),
                                ![w].raised = "KeyError: rag_instance"]
           ELSE sessions' = [sessions EXCEPT
                                ![w].visited = Append(@, S.pc),
                                ![w].inflight = @ \cup {S.pc},
                                ![w].pc = NextAfterCall(S.pc, S.state)]
        /\ UNCHANGED WalkVars

\* the classifier returns one of raws: classify_node stores the intent and
\* the conditional edge is evaluated
ClassifierReturns(w, raws) ==
    LET S == sessions[w]
    IN  /\ "classify" \in S.inflight
        /\ \E raw \in raws :
              LET s1 == classify_node(S.state, raw)
                  route == decide_next_step(s1)
                  done == [sessions EXCEPT
                              ![w].inflight = @ \ {"classify"},
                              ![w].trace = Append(@, [node |-> "classify", response |-> raw]),
                              ![w].pc = IF route \in DOMAIN ClassifyPathMap
                                        THEN ClassifyPathMap[route] ELSE @,
                              ![w].raised = IF route \in DOMAIN ClassifyPathMap
                                            THEN @ ELSE "KeyError: route"]
              IN  sessions' = StoreState(done, w, s1)
        /\ UNCHANGED WalkVars

\* run_rag_agent returns
RagReturns(w) ==
    LET S == sessions[w]
    IN  /\ "rag" \in S.inflight
        /\ \E answer \in RagAnswers :
              LET s1 == rag_node(S.state, answer)
                  done == [sessions EXCEPT
                              ![w].inflight = @ \ {"rag"},
                              ![w].trace = Append(@, [node |-> "rag", response |-> answer]),
                              ![w].pc = AfterRag(s1)]
              IN  sessions' = StoreState(done, w, s1)
        /\ UNCHANGED WalkVars

\* run_sql_agent returns what the validator let through
SqlReturns(w) ==
    LET S == sessions[w]
    IN  /\ "sql" \in S.inflight
        /\ \E o \in SessionModelOutputs :
              LET v == validate_output(db, o)
                  res == SQLAgentOutput(v.output)
                  s1 == sql_node(S.state, res)
                  done == [sessions EXCEPT
                              ![w].inflight = @ \ {"sql"},
                              ![w].trace = Append(@, [node |-> "sql", response |-> res]),
                              ![w].pc = "summarize"]
              IN  /\ v.do = "return"
                  /\ sessions' = StoreState(done, w, s1)
        /\ UNCHANGED WalkVars

\* run_summary_agent returns and ainvoke returns the state
SummarizerReturns(w) ==
    LET S == sessions[w]
    IN  /\ "summarize" \in S.inflight
        /\ \E answer \in SummaryAnswers :
              LET s1 == summarize_node(S.state, answer)
                  done == [sessions EXCEPT
                              ![w].inflight = @ \ {"summarize"},
                              ![w].trace = Append(@, [node |-> "summarize", response |-> answer]),
                              ![w].pc = "end",
                              ![w].final_state = s1]
              IN  sessions' = StoreState(done, w, s1)
        /\ UNCHANGED WalkVars

\* a collaborator call raises: the exception leaves ainvoke
CallFails(w) ==
    LET S == sessions[w]
    IN  /\ S.raised = "none"
        /\ \E n \in S.inflight :
              sessions' = [sessions EXCEPT
                              ![w].inflight = @ \ {n},
                              ![w].raised = "CollaboratorError"]
        /\ UNCHANGED WalkVars

\* summary_agent.run_stream is entered with full_response = ""
StreamOpen(w) ==
    LET S == sessions[w]
    IN  /\ S.pc = "end"
        /\ S.stream = "idle"
        /\ sessions' = [sessions EXCEPT ![w].stream = "open", ![w].full_response = << >>]
        /\ UNCHANGED WalkVars

\* the async for is still running: the text without the cursor has not
\* been shown yet
Streaming(S) == S.stream = "open" /\ Len(S.shown) = Len(S.delivered)

\* one turn of the async for: a fragment arrives, is appended, and the
\* placeholder shows the text so far and the cursor
StreamDelta(w) ==
    LET S == sessions[w]
    IN  /\ Streaming(S)
        /\ Len(S.delivered) < MaxFragments
        /\ \E delta \in Fragments :
              LET full == Accumulate(S.full_response, delta)
              IN  sessions' = [sessions EXCEPT
                                  ![w].full_response = full,
                                  ![w].delivered = Append(@, delta),
                                  ![w].shown = Append(@, full \o <<Cursor>>)]
        /\ UNCHANGED WalkVars

\* the stream is exhausted: the placeholder shows the text without the
\* cursor, and the async with awaits the exit of run_stream
StreamEnd(w) ==
    LET S == sessions[w]
    IN  /\ Streaming(S)
        /\ sessions' = [sessions EXCEPT ![w].shown = Append(@, S.full_response)]
        /\ UNCHANGED WalkVars

\* the exit of run_stream returns and the assistant message is recorded
StreamExit(w) ==
    LET S == sessions[w]
    IN  /\ S.stream = "open"
        /\ ~Streaming(S)
        /\ sessions' = [sessions EXCEPT
                           ![w].stream = "closed",
                           ![w].messages = Append(@, [role |-> "assistant",
                                                      content |-> S.full_response])]
        /\ UNCHANGED WalkVars

\* the stream raises, in the loop or in the exit of run_stream: no
\* assistant message is recorded
StreamFails(w) ==
    LET S == sessions[w]
    IN  /\ S.stream = "open"
        /\ sessions' = [sessions EXCEPT ![w].stream = "failed", ![w].raised = "StreamError"]
        /\ UNCHANGED WalkVars

\* the walk of one session
SessionWalk(w) ==
    \/ SessionInvoke(w)
    \/ NodeCall(w)
    \/ ClassifierReturns(w, SessionLabels)
    \/ RagReturns(w)
    \/ SqlReturns(w)
    \/ SummarizerReturns(w)
    \/ CallFails(w)

\* two sessions asking concurrently
NextWalks == \E w \in Sessions : SessionWalk(w)

SpecWalks == InitSessions /\ [][NextWalks]_vars

\* two sessions up to the routing decision: the classifier of session a
\* answers any raw response, that of session b a bare label
NextLabel ==
    \/ \E w \in Sessions : SessionInvoke(w) \/ NodeCall(w) \/ CallFails(w)
    \/ ClassifierReturns("a", RawResponses)
    \/ ClassifierReturns("b", SessionLabels)

SpecLabel == InitSessions /\ [][NextLabel]_vars

\* one session from its question to the end of the streamed summary
NextStream ==
    \/ SessionWalk("a")
    \/ StreamOpen("a")
    \/ StreamDelta("a")
    \/ StreamEnd("a")
    \/ StreamExit("a")
    \/ StreamFails("a")

SpecStream == InitSessions /\ [][NextStream]_vars

-----------------------------------------------------------------------------
(* Properties *)

Vocabulary == {sql, rag, hybrid}

HasIntent(i) == "intent" \in DOMAIN state /\ state["intent"] = i

IsPrefix(a, b) == Len(a) <= Len(b) /\ a = SubSeq(b, 1, Len(a))

HybridWalk == <<"classify", "rag", "sql", "summarize">>
SqlWalk == <<"classify", "sql", "summarize">>
RagWalk == <<"classify", "rag", "summarize">>

\* the walk is over: ainvoke returned or raised
WalkOver == pc = "end" \/ ~Running

\* what the caller of ainvoke holds: the dict it passed and the dict returned
CallerHas(k) == k \in DOMAIN call_arg \/ k \in DOMAIN final_state

\* the lines of the answer block of a display string that render a row
RenderedRows(s) ==
    LET heads == {i \in 1..Len(s) : s[i] = AnswerHeader}
    IN  IF heads = {} THEN 0
        ELSE LET h == CHOOSE i \in heads : \A j \in heads : i <= j
             IN  Cardinality({j \in (h + 1)..Len(s) : s[j] \notin {"\n", "_No rows returned._"}})

\* the rows the statements of stmts fetch from database d, in order
RECURSIVE FetchedBy(_, _)
FetchedBy(d, stmts) ==
    IF stmts = << >> THEN << >>
    ELSE Execute(d, Head(stmts)).rows \o FetchedBy(d, Tail(stmts))

\* C1: a walk whose intent is hybrid enters classify, rag, sql, summarize in
\* that order, each once and nothing else, and is at end exactly when
\* summarize, the fourth, has completed.
C1_HybridSequence ==
    HasIntent(hybrid) =>
        /\ IsPrefix(visited, HybridWalk)
        /\ pc = "end" => visited = HybridWalk
        /\ (visited = HybridWalk /\ Running /\ ~Entered("summarize")) => pc = "end"

C1_Witness == HasIntent(hybrid) /\ pc = "end" /\ visited = HybridWalk

\* C2: a walk whose intent is sql enters only classify, sql, summarize and
\* never rag; a walk whose intent is rag enters only classify, rag,
\* summarize and never sql; at end each has entered exactly its three nodes.
C2_SingleBackend ==
    /\ HasIntent(sql) =>
          /\ IsPrefix(visited, SqlWalk)
          /\ pc = "end" => visited = SqlWalk
    /\ HasIntent(rag) =>
          /\ IsPrefix(visited, RagWalk)
          /\ pc = "end" => visited = RagWalk

C2_Witness == HasIntent(rag) /\ pc = "end" /\ visited = RagWalk

\* C3: once the trimmed, lower-cased label is none of sql, rag, hybrid, the
\* run has raised, the walk is still at classify, no other node was
\* entered, neither output field nor a final answer exists and nothing was
\* returned.
C3_UnknownLabelRaises ==
    ("intent" \in DOMAIN state /\ state["intent"] \notin Vocabulary) =>
        /\ raised = "KeyError: route"
        /\ pc = "classify"
        /\ visited = <<"classify">>
        /\ DOMAIN state \cap {"sql_output", "rag_output", "final_answer"} = {}
        /\ final_state = << >>
        /\ conn = "none"

C3_Witness ==
    /\ "intent" \in DOMAIN state
    /\ state["intent"] = <<"maybe">>
    /\ raised = "KeyError: route"

\* C4: once the classifier call has failed, its error has left ainvoke, the
\* walk is at classify, no other node was entered, no intent was chosen and
\* no state was returned.
C4_ClassifierFailure ==
    failed = "classifier" =>
        /\ raised = "ClassifierError"
        /\ pc = "classify"
        /\ visited = <<"classify">>
        /\ state = call_arg
        /\ final_state = << >>

C4_Witness == failed = "classifier" /\ raised = "ClassifierError" /\ "input" \in DOMAIN call_arg

\* C5 (as claimed): a failure of the SQL or of the RAG collaborator is never
\* thrown to the caller: its node's output field holds an error string.
C5_BackendFailureCaptured ==
    failed \in {"sql", "rag"} =>
        /\ raised = "none"
        /\ "sql_output" \in DOMAIN state \/ "rag_output" \in DOMAIN state

\* C6 (as claimed): whatever rows the collaborator's result carries,
\* sql_output renders at most 5 of them.
C6_NodeCapsRows ==
    "sql_output" \in DOMAIN state => RenderedRows(state["sql_output"]) <= RowCap

\* C6: sql_output renders every row of the collaborator's result, none
\* dropped; it renders at most 5 whenever the result is one run_sql_agent
\* returned.
C6_RendersResultRows ==
    ("sql_output" \in DOMAIN state /\ "rows" \in DOMAIN result) =>
        /\ RenderedRows(state["sql_output"]) = Len(result["rows"])
        /\ conn = "closed" => RenderedRows(state["sql_output"]) <= RowCap

C6_Witness ==
    /\ conn = "closed"
    /\ "sql_output" \in DOMAIN state
    /\ RenderedRows(state["sql_output"]) = RowCap
    /\ Len(log.fetched) > RowCap

\* C7: a successful result of run_sql_agent holds the first 5 of the rows
\* its statements fetched, all statements taken together in execution
\* order, or all of them when they are fewer.
C7_RowCapAcrossStatements ==
    (conn = "closed" /\ "rows" \in DOMAIN result) =>
        /\ Len(result["rows"]) <= RowCap
        /\ log.fetched = FetchedBy(db, log.executed)
        /\ IsPrefix(result["rows"], log.fetched)
        /\ Len(log.fetched) >= RowCap => Len(result["rows"]) = RowCap
        /\ Len(log.fetched) < RowCap => result["rows"] = log.fetched

\* two statements, the second the duplicate for the detailed table, each
\* fetching fewer than 5 rows and together more
C7_Witness ==
    /\ conn = "closed"
    /\ "rows" \in DOMAIN result
    /\ Len(result["rows"]) = RowCap
    /\ Len(log.executed) = 2
    /\ log.executed[1].table = BasicTable
    /\ log.executed[2] = [log.executed[1] EXCEPT !.table = DetailedTable]
    /\ \A i \in 1..2 : Len(Execute(db, log.executed[i]).rows) < RowCap
    /\ result["rows"][RowCap].tbl = DetailedTable

\* C8 (as claimed): once the summarizer call has failed, no final answer
\* exists and the caller holds every output field a node wrote.
C8_OutputsSurviveSummarizerFailure ==
    failed = "summarizer" =>
        /\ raised = "SummarizerError"
        /\ "final_answer" \notin DOMAIN final_state
        /\ \A k \in {"sql_output", "rag_output"} : k \in DOMAIN state => CallerHas(k)

\* C9: the state a completed walk returns has sql_output exactly when the
\* intent is sql or hybrid, rag_output exactly when it is rag or hybrid,
\* and a final answer.
C9_FinalStateFields ==
    pc = "end" =>
        /\ "intent" \in DOMAIN final_state
        /\ "sql_output" \in DOMAIN final_state <=> final_state["intent"] \in {sql, hybrid}
        /\ "rag_output" \in DOMAIN final_state <=> final_state["intent"] \in {rag, hybrid}
        /\ "final_answer" \in DOMAIN final_state

C9_Witness ==
    /\ pc = "end"
    /\ final_state["intent"] = hybrid
    /\ {"sql_output", "rag_output", "final_answer"} \subseteq DOMAIN final_state

\* C10 (as claimed): a walk invoked with the input field alone, whose
\* classifier answered one of the three intents and none of whose
\* collaborators failed, ends with a final answer returned.
C10_InputOnlyReturnsAnswer ==
    (/\ DOMAIN call_arg = {"input"}
     /\ "intent" \in DOMAIN state
     /\ state["intent"] \in Vocabulary
     /\ failed = "none"
     /\ WalkOver) => "final_answer" \in DOMAIN final_state

\* x occurs in sequence s
InSeq(x, s) == \E i \in 1..Len(s) : s[i] = x

NoDuplicates(s) == \A i, j \in 1..Len(s) : s[i] = s[j] => i = j

\* C11: sql_output exists only once the sql node was entered, rag_output
\* only once the rag node was, final_answer only once summarize was and
\* the walk is at end; intent is set at every node after classify, so at
\* each routing decision, the one that raised included.
C11_FieldsFollowNodes ==
    /\ "sql_output" \in DOMAIN state => InSeq("sql", visited)
    /\ "rag_output" \in DOMAIN state => InSeq("rag", visited)
    /\ "final_answer" \in DOMAIN state => (InSeq("summarize", visited) /\ pc = "end")
    /\ (pc \in {"rag", "sql", "summarize", "end"} \/ raised = "KeyError: route")
          => "intent" \in DOMAIN state

C11_Witness ==
    /\ DOMAIN call_arg = {"input"}
    /\ pc = "summarize"
    /\ "sql_output" \in DOMAIN state
    /\ DOMAIN state \cap {"rag_output", "final_answer"} = {}

\* C12: the list handed to the summarizer has at most two strings, each
\* the output field of a backend node this walk entered, and the RAG
\* output comes before the SQL output when both are non-empty.
C12_SummaryInputOrder ==
    InSeq("summarize", visited) =>
        /\ Len(outputs) <= 2
        /\ \A i \in 1..Len(outputs) :
              \E n \in {"rag", "sql"} :
                 LET field == IF n = "rag" THEN "rag_output" ELSE "sql_output"
                 IN  /\ InSeq(n, visited)
                     /\ field \in DOMAIN state
                     /\ outputs[i] = state[field]
        /\ (Truthy(state, "rag_output") /\ Truthy(state, "sql_output"))
              => outputs = <<state["rag_output"], state["sql_output"]>>
        /\ Truthy(state, "rag_output") => InSeq(state["rag_output"], outputs)
        /\ Truthy(state, "sql_output") => InSeq(state["sql_output"], outputs)

C12_Witness ==
    /\ HasIntent(hybrid)
    /\ InSeq("summarize", visited)
    /\ Len(outputs) = 2
    /\ outputs[1] = <<"document answer">>

\* s split at each occurrence of the token sep
RECURSIVE SplitOn(_, _)
SplitOn(s, sep) ==
    IF \A i \in 1..Len(s) : s[i] # sep THEN <<s>>
    ELSE LET k == CHOOSE i \in 1..Len(s) : s[i] = sep /\ \A j \in 1..(i - 1) : s[j] # sep
         IN  <<SubSeq(s, 1, k - 1)>> \o SplitOn(SubSeq(s, k + 1, Len(s)), sep)

\* one line per row, a line break between two lines
RowLines(rows) ==
    [i \in 1..(2 * Len(rows) - 1) |-> IF i % 2 = 1 THEN RowText(rows[(i + 1) \div 2]) ELSE "\n"]

\* C13: for an error result sql_output is "Error: " and the message and
\* nothing more; otherwise its blocks are the query (when the query is not
\* empty), the explanation (exactly when it is not empty) and, last, one
\* answer block holding the rendered rows or the no-rows marker.
C13_DisplayShape ==
    ("sql_output" \in DOMAIN state /\ result # << >>) =>
        LET d == state["sql_output"]
            b == SplitOn(d, "\n\n")
        IN  IF "error" \in DOMAIN result
            THEN d = <<"Error: ">> \o result["error"]
            ELSE LET hasQ == result["sql_query"] # << >>
                     hasE == result["explanation"] # << >>
                     n == (IF hasQ THEN 1 ELSE 0) + (IF hasE THEN 1 ELSE 0) + 1
                 IN  /\ Len(b) = n
                     /\ hasQ => b[1] = <<"**Query:** ", QueryText(result["sql_query"])>>
                     /\ hasE => b[n - 1] = <<"**Explanation:**\n">> \o result["explanation"]
                     /\ b[n] = IF result["rows"] = << >>
                               THEN <<AnswerHeader, "_No rows returned._">>
                               ELSE <<AnswerHeader>> \o RowLines(result["rows"])
                     /\ Cardinality({i \in 1..Len(d) : d[i] = AnswerHeader}) = 1

\* a result of run_sql_agent with a query, no explanation and no rows
C13_Witness ==
    /\ conn = "closed"
    /\ "sql_output" \in DOMAIN state
    /\ "rows" \in DOMAIN result
    /\ result["rows"] = << >>
    /\ result["explanation"] = << >>
    /\ Len(SplitOn(state["sql_output"], "\n\n")) = 2

\* C18: what run_sql_agent returns has either exactly the keys sql_query,
\* explanation and rows, or exactly the key error.
C18_ResultShape ==
    conn = "closed" =>
        \/ DOMAIN result = {"sql_query", "explanation", "rows"}
        \/ DOMAIN result = {"error"}

\* a success with no rows still carries the three keys
C18_Witness ==
    /\ conn = "closed"
    /\ DOMAIN result = {"sql_query", "explanation", "rows"}
    /\ result["rows"] = << >>
    /\ pc = "summarize"
    /\ HasIntent(sql)

\* C19 (as claimed): a walk none of whose collaborator calls failed, and
\* whose label is one of the three intents, is at end or can take a step,
\* and has entered at most four nodes, none twice.
C19_WalkReachesEnd ==
    (failed = "none" /\ raised # "KeyError: route") =>
        /\ pc = "end" \/ ENABLED Next
        /\ Len(visited) <= 4
        /\ NoDuplicates(visited)

\* the field each node may write
Writes(node) ==
    CASE node = "classify" -> {"intent"}
      [] node = "rag" -> {"rag_output"}
      [] node = "sql" -> {"sql_output"}
      [] node = "summarize" -> {"final_answer"}
      [] OTHER -> {}

\* C20: a step of the walk at a node keeps every field of the state but
\* the node's own, removes none, and adds none but its own; input and
\* rag_instance are no node's own; the sql node's output is the display of
\* what run_sql_agent returned and holds nothing of the RAG answer.
C20_Frame ==
    [][pc # "start" =>
          /\ DOMAIN state \subseteq DOMAIN state'
          /\ \A k \in DOMAIN state' :
                \/ k \in Writes(pc)
                \/ k \in DOMAIN state /\ state'[k] = state[k]
          /\ (pc = "sql" /\ "sql_output" \in DOMAIN state') =>
                /\ state'["sql_output"] = sql_node_display(result')
                /\ ~InSeq("document answer", state'["sql_output"])]_vars

C20_Witness ==
    /\ pc = "end"
    /\ HasIntent(hybrid)
    /\ state["rag_output"] = <<"document answer">>
    /\ state["input"] = call_arg["input"]
    /\ state["rag_instance"] = call_arg["rag_instance"]
    /\ InSeq("**Answer:**\n", state["sql_output"])

\* r without its leading and its trailing white space
Core(r) ==
    LET idx == {i \in 1..Len(r) : r[i] \notin {" ", "\n"}}
    IN  IF idx = {} THEN << >>
        ELSE SubSeq(r, CHOOSE i \in idx : \A j \in idx : i <= j,
                       CHOOSE i \in idx : \A j \in idx : j <= i)

\* a token in lower case
CaseFold(t) == CASE t = "SQL" -> "sql" [] t = "Hybrid" -> "hybrid" [] OTHER -> t

\* i is r trimmed and in lower case
NormalForm(i, r) ==
    /\ Len(i) = Len(Core(r))
    /\ \A k \in 1..Len(i) : i[k] = CaseFold(Core(r)[k])

\* r1 and r2 differ in letter case and surrounding white space at most
SameLabel(r1, r2) ==
    /\ Len(Core(r1)) = Len(Core(r2))
    /\ \A k \in 1..Len(Core(r1)) : CaseFold(Core(r1)[k]) = CaseFold(Core(r2)[k])

\* the classifier of the session has answered
Classified(S) == S.trace # << >> /\ S.trace[1].node = "classify"

\* where classification sent the walk
RouteOf(S) == IF S.raised = "KeyError: route" THEN "KeyError" ELSE S.pc

\* C14: the intent a session stores is the raw response of its classifier,
\* trimmed and in lower case; two sessions whose raw responses differ in
\* letter case and surrounding white space at most store the same intent
\* and are routed alike.
C14_SameRoute ==
    \A w, v \in Sessions :
        LET S == sessions[w]
            T == sessions[v]
        IN  (Classified(S) /\ Classified(T)) =>
                /\ NormalForm(S.state["intent"], S.trace[1].response)
                /\ SameLabel(S.trace[1].response, T.trace[1].response) =>
                      /\ S.state["intent"] = T.state["intent"]
                      /\ RouteOf(S) = RouteOf(T)

C14_Witness ==
    /\ Classified(sessions["a"])
    /\ Classified(sessions["b"])
    /\ sessions["a"].trace[1].response = <<" ", "SQL", "\n">>
    /\ sessions["b"].trace[1].response = <<"sql">>
    /\ sessions["a"].pc = "sql"
    /\ sessions["b"].pc = "sql"

\* the fragments of fs one after the other
RECURSIVE Concat(_)
Concat(fs) == IF fs = << >> THEN << >> ELSE Head(fs) \o Concat(Tail(fs))

AssistantMessages(S) == {i \in 1..Len(S.messages) : S.messages[i].role = "assistant"}

\* C15: the accumulated text is the fragments delivered so far, in order;
\* the text shown after the i-th fragment is the first i fragments and the
\* cursor, a prefix of the final text that extends the text shown before
\* by that fragment; the stream ends at most once: the text is then shown
\* once without the cursor, and when run_stream has been left the one
\* assistant message recorded is that text, the concatenation of all the
\* fragments.
C15_StreamAccumulates ==
    \A w \in Sessions :
        LET S == sessions[w]
            n == Len(S.delivered)
        IN  /\ S.full_response = Concat(S.delivered)
            /\ \A i \in 1..n :
                  /\ S.shown[i] = Concat(SubSeq(S.delivered, 1, i)) \o <<Cursor>>
                  /\ IsPrefix(Concat(SubSeq(S.delivered, 1, i)), S.full_response)
                  /\ Concat(SubSeq(S.delivered, 1, i))
                        = Concat(SubSeq(S.delivered, 1, i - 1)) \o S.delivered[i]
            /\ S.stream = "closed" =>
                  /\ Len(S.shown) = n + 1
                  /\ S.shown[n + 1] = Concat(S.delivered)
                  /\ Cardinality(AssistantMessages(S)) = 1
                  /\ S.messages[Len(S.messages)]
                        = [role |-> "assistant", content |-> Concat(S.delivered)]
            /\ S.stream # "closed" =>
                  /\ Len(S.shown) \in {n, n + 1}
                  /\ Len(S.shown) = n + 1 => S.shown[n + 1] = Concat(S.delivered)
                  /\ AssistantMessages(S) = {}

C15_Witness ==
    /\ sessions["a"].stream = "closed"
    /\ sessions["a"].delivered = << <<"sum">>, << >>, <<"mary">> >>
    /\ sessions["a"].messages[2].content = <<"sum", "mary">>

\* the state a walk reaches from s by the responses of trace
ApplyResponse(s, e) ==
    CASE e.node = "classify" -> classify_node(s, e.response)
      [] e.node = "rag" -> rag_node(s, e.response)
      [] e.node = "sql" -> sql_node(s, e.response)
      [] e.node = "summarize" -> summarize_node(s, e.response)

RECURSIVE Replay(_, _)
Replay(s, trace) ==
    IF trace = << >> THEN s ELSE Replay(ApplyResponse(s, Head(trace)), Tail(trace))

\* C16: under every interleaving of two sessions, the state of each walk
\* is what its own input and the responses to its own collaborator calls
\* make it, whatever the other session did; what ainvoke returns is that
\* state; the rag_instance handle both sessions pass is never overwritten.
C16_NoInterference ==
    \A w \in Sessions :
        LET S == sessions[w]
        IN  /\ S.pc # "start" => S.state = Replay(S.call_arg, S.trace)
            /\ S.pc = "start" => S.state = << >>
            /\ S.pc = "end" => S.final_state = S.state
            /\ "rag_instance" \in DOMAIN S.call_arg =>
                  /\ "rag_instance" \in DOMAIN S.state
                  /\ S.state["rag_instance"] = <<"LightRAG">>

\* both walks are over, with different intents, each with its own outputs
C16_Witness ==
    /\ sessions["a"].pc = "end"
    /\ sessions["b"].pc = "end"
    /\ sessions["a"].state["intent"] = hybrid
    /\ sessions["b"].state["intent"] = sql
    /\ "rag_output" \notin DOMAIN sessions["b"].state
    /\ Len(sessions["a"].trace) = 4

\* C17: a walk has at most one collaborator call in progress, that of the
\* node it is at; every node entered before it has returned; in a walk
\* that enters both backends the rag call has returned before the sql
\* call is issued.
C17_OneNodeAtATime ==
    \A w \in Sessions :
        LET S == sessions[w]
        IN  /\ Cardinality(S.inflight) <= 1
            /\ S.inflight # {} => S.inflight = {S.pc}
            /\ S.inflight # {} => Len(S.trace) = Len(S.visited) - 1
            /\ S.inflight = {} => Len(S.visited) - Len(S.trace) \in {0, 1}
            /\ (InSeq("sql", S.visited) /\ InSeq("rag", S.visited)) =>
                  /\ \E i \in 1..Len(S.trace) : S.trace[i].node = "rag"
                  /\ "rag_output" \in DOMAIN S.state

\* the sql call of a hybrid walk is in progress while the other session
\* waits for its rag call
C17_Witness ==
    /\ sessions["a"].inflight = {"sql"}
    /\ sessions["a"].visited = <<"classify", "rag", "sql">>
    /\ "rag_output" \in DOMAIN sessions["a"].state
    /\ sessions["b"].inflight = {"rag"}

\* C21: once the sql node has written it, sql_output is not empty: it
\* begins with "Error: " or holds an answer block; so the summarizer of a
\* walk that entered sql gets at least one input, and it gets none only
\* on a rag walk whose answer is the empty string.
C21_SqlOutputNonEmpty ==
    /\ "sql_output" \in DOMAIN state =>
          /\ state["sql_output"] # << >>
          /\ \/ state["sql_output"][1] = "Error: "
             \/ InSeq(AnswerHeader, state["sql_output"])
    /\ (InSeq("summarize", visited) /\ InSeq("sql", visited)) => Len(outputs) >= 1
    /\ (InSeq("summarize", visited) /\ outputs = << >>) =>
          /\ visited = <<"classify", "rag", "summarize">>
          /\ state["rag_output"] = << >>

\* the SQL agent refused with an empty message: sql_output is the bare
\* prefix and still reaches the summarizer
C21_Witness ==
    /\ InSeq("summarize", visited)
    /\ "error" \in DOMAIN result
    /\ result["error"] = << >>
    /\ state["sql_output"] = <<"Error: ">>
    /\ outputs = << <<"Error: ">> >>

\* C22 (as claimed): every statement validate_output executed on the
\* connection is a SELECT statement.
C22_OnlySelectExecuted ==
    \A i \in 1..Len(log.executed) : log.executed[i].verb = "SELECT"

\* C23 (as claimed): once run_sql_agent has been left, by return or by an
\* exception, the connection it opened is closed.
C23_ConnectionClosed ==
    (conn # "none" /\ (pc # "sql" \/ ~Running)) => conn = "closed"

====
